---------------------------- MODULE Spec2Model ----------------------------
(***************************************************************************)
(* Model of Algorithm.Python/Alphas/PumpAndDumpAlpha.py:                   *)
(*   PennyStockUniverseSelectionModel.SelectCoarse  (the monthly filter)   *)
(*   PumpAndDumpAlphaModel.__init__ / Update        (the daily ranking)    *)
(* The host framework is the environment: it supplies algorithm.Time, the  *)
(* coarse snapshot and algorithm.ActiveSecurities as arguments of calls.   *)
(***************************************************************************)
EXTENDS Integers, Sequences, FiniteSets

(***************************************************************************)
(* Bounds of the model.                                                    *)
(***************************************************************************)
\* identifiers are 1..NumSymbols, ordered as Symbol objects are ordered
NumSymbols == 3
\* longest coarse snapshot handed to SelectCoarse
MaxCoarse == 3
\* years the clock runs through (year 1 is the start date's year)
MaxYear == 2
\* months of a year the clock runs through (1..12 in the source)
MaxMonth == 3
\* largest numberOfStocks keyword argument tried (besides the default)
MaxStocks == 2
\* self.numberOfSymbolsCoarse, 500 at line 101, scaled so that a snapshot of
\* MaxCoarse records can exceed it
numberOfSymbolsCoarse == 2

Symbols == 1..NumSymbols

Min(a, b) == IF a <= b THEN a ELSE b

Max(a, b) == IF a >= b THEN a ELSE b

SeqsUpTo(S, n) == UNION {[1..k -> S] : k \in 0..n}

VARIABLES
    Time,              \* algorithm.Time of the latest SelectCoarse call
    coarse,            \* the coarse argument of the latest SelectCoarse call
    lastMonth,         \* self.lastMonth
    symbols,           \* self.symbols
    top,               \* the records behind self.symbols (local top, line 117)
    returned,          \* value returned by the latest SelectCoarse call
    refreshed,         \* history: the latest call took the recompute path
    refreshTime,       \* history: algorithm.Time of the latest recompute
    selectCalls,       \* history: 0, 1 or 2 (= two or more) calls so far
    uniqueInputs,      \* history: no snapshot so far repeated an identifier
    numberOfStocks,    \* self.numberOfStocks
    predictionInterval,\* self.predictionInterval, in hours
    ActiveSecurities,  \* algorithm.ActiveSecurities of the latest Update call
    insights,          \* value returned by the latest Update call
    updated,           \* history: Update has been called
    zeroDivision,      \* history: Update evaluated Close / 0
    memo               \* history: one earlier Update call, its input and output

filterVars == <<Time, coarse, lastMonth, symbols, top, returned, refreshed,
                refreshTime, selectCalls, uniqueInputs>>

rankVars == <<ActiveSecurities, insights, updated, zeroDivision, memo>>

configVars == <<numberOfStocks, predictionInterval>>

vars == <<filterVars, rankVars, configVars>>

(***************************************************************************)
(* PennyStockUniverseSelectionModel                                        *)
(***************************************************************************)
Times == [year : 1..MaxYear, month : 1..MaxMonth]

\* chronological order of two dates (year, then month)
NotBefore(t, u) == t.year > u.year \/ (t.year = u.year /\ t.month >= u.month)

NoTime == [year |-> 0, month |-> 0]

\* the records that pass every criterion, and the five ways to fail exactly
\* one of them (on the first identifier, with the larger dollar volume)
PassingRecords ==
    [Symbol : Symbols, HasFundamentalData : {TRUE}, Volume : {10001},
     Price : {1}, DollarVolume : {100, 200}]

FailingRecords ==
    [Symbol : {1}, HasFundamentalData : {FALSE}, Volume : {10001},
     Price : {1}, DollarVolume : {200}]
    \cup [Symbol : {1}, HasFundamentalData : {TRUE}, Volume : {10000, 1000000},
          Price : {1}, DollarVolume : {200}]
    \cup [Symbol : {1}, HasFundamentalData : {TRUE}, Volume : {10001},
          Price : {0, 5}, DollarVolume : {200}]

CoarseRecords == PassingRecords \cup FailingRecords

\* the records used in sequences of calls: one per identifier, and one failing
CacheRecords == {x \in CoarseRecords : x.DollarVolume = 200 /\ x.Price = 1
                                       /\ x.Volume = 10001}

NoDup(s) == \A i, j \in 1..Len(s) : s[i] = s[j] => i = j

SymbolsOf(s) == [i \in 1..Len(s) |-> s[i].Symbol]

NoDupIds(c) == NoDup(SymbolsOf(c))

\* variant: the test written with <= instead of ==
IsCachedLessEqual(month) == month <= lastMonth

\* line 108: month == self.lastMonth
IsCached(month) == month = lastMonth

\* variant: the assignment of line 110 left out
NextLastMonthKept(month) == lastMonth

\* line 110: self.lastMonth = month
NextLastMonth(month) == month

\* variant: the comparisons written inclusive
PassesFilterInclusive(x) ==
    /\ x.HasFundamentalData
    /\ 1000000 >= x.Volume /\ x.Volume >= 10000
    /\ 5 >= x.Price /\ x.Price >= 0

\* lines 112-114: the filter's condition
PassesFilter(x) ==
    /\ x.HasFundamentalData
    /\ 1000000 > x.Volume /\ x.Volume > 10000
    /\ 5 > x.Price /\ x.Price > 0

\* lines 112-114: the list comprehension keeps the input order
Filtered(c) == SelectSeq(c, PassesFilter)

\* variant: an ascending sort reversed afterwards, which reverses equal keys
InsertTiesReversed(x, t) ==
    LET k == Cardinality({i \in 1..Len(t) : t[i].DollarVolume > x.DollarVolume})
    IN  SubSeq(t, 1, k) \o <<x>> \o SubSeq(t, k + 1, Len(t))

\* line 117: sorted(..., reverse=True) is stable: x, which came later in the
\* input than every element of t, goes after the elements whose key is >= its own
InsertByDollarVolume(x, t) ==
    LET k == Cardinality({i \in 1..Len(t) : t[i].DollarVolume >= x.DollarVolume})
    IN  SubSeq(t, 1, k) \o <<x>> \o SubSeq(t, k + 1, Len(t))

RECURSIVE SortedByDollarVolume(_)
SortedByDollarVolume(s) ==
    IF s = <<>> THEN <<>>
    ELSE InsertByDollarVolume(s[Len(s)],
                              SortedByDollarVolume(SubSeq(s, 1, Len(s) - 1)))

\* line 117: [:self.numberOfSymbolsCoarse]
Top(s) == SubSeq(s, 1, Min(Len(s), numberOfSymbolsCoarse))

\* variant: the new identifiers appended to the old list
SymbolsAppended(t) == symbols \o SymbolsOf(t)

\* line 119: self.symbols = [ i.Symbol for i in top ]
NewSymbols(t) == SymbolsOf(t)

\* lines 105-121, called with algorithm.Time = t and coarse = c
SelectCoarse(t, c) ==
    /\ Time' = t
    /\ coarse' = c
    /\ selectCalls' = Min(selectCalls + 1, 2)
    /\ uniqueInputs' = (uniqueInputs /\ NoDupIds(c))
    /\ IF IsCached(t.month)
       THEN /\ returned' = symbols
            /\ refreshed' = FALSE
            /\ UNCHANGED <<lastMonth, symbols, top, refreshTime>>
       ELSE /\ lastMonth' = NextLastMonth(t.month)
            /\ top' = Top(SortedByDollarVolume(Filtered(c)))
            /\ symbols' = NewSymbols(top')
            /\ returned' = symbols'
            /\ refreshed' = TRUE
            /\ refreshTime' = t
    /\ UNCHANGED <<rankVars, configVars>>

\* lines 97-103 and the start date of line 42
InitFilter ==
    /\ Time = [year |-> 1, month |-> 1]
    /\ coarse = <<>>
    /\ lastMonth = -1
    /\ symbols = <<>>
    /\ top = <<>>
    /\ returned = <<>>
    /\ refreshed = FALSE
    /\ refreshTime = NoTime
    /\ selectCalls = 0
    /\ uniqueInputs = TRUE

(***************************************************************************)
(* PumpAndDumpAlphaModel                                                   *)
(***************************************************************************)
\* prices in millionths of a currency unit
BasePrice == 3 * 1000000

SecurityValues ==
    {s \in [HasData : BOOLEAN, Open : {0, BasePrice},
            Close : {BasePrice, BasePrice + 1, BasePrice + 2}] :
        ~s.HasData => s.Close = BasePrice + 2}

\* the smaller set for sequences of calls
FewSecurityValues == {s \in SecurityValues : s.HasData /\ s.Close = BasePrice + 1 /\ s.Open # 0}

\* algorithm.ActiveSecurities: a dictionary keyed by Symbol
Snapshots(values) == UNION {[D -> values] : D \in SUBSET Symbols}

\* keyword arguments of the constructor: <<>> is an absent key, <<v>> a given one
KwargsTried ==
    [lookback : {<<>>, <<2>>},
     resolution : {<<>>, <<"Hour">>},
     numberOfStocks : {<<>>} \cup {<<n>> : n \in -1..MaxStocks}]

NoKwargs == [lookback |-> <<>>, resolution |-> <<>>, numberOfStocks |-> <<>>]

\* Extensions.ToTimeSpan(resolution), in hours
ToTimeSpan(resolution) == IF resolution = "Daily" THEN 24 ELSE 1

\* line 63
Lookback(kwargs) ==
    IF kwargs.lookback # <<>> THEN kwargs.lookback[1] ELSE 1

\* line 64
ResolutionOf(kwargs) ==
    IF kwargs.resolution # <<>> THEN kwargs.resolution[1] ELSE "Daily"

\* line 65: Time.Multiply(Extensions.ToTimeSpan(resolution), lookback)
PredictionInterval(kwargs) == ToTimeSpan(ResolutionOf(kwargs)) * Lookback(kwargs)

\* line 66
NumberOfStocks(kwargs) ==
    IF kwargs.numberOfStocks # <<>> THEN kwargs.numberOfStocks[1] ELSE 10

\* variant: the HasData test left out
HasReturnWithoutData(security) == security.Open # 0

\* lines 73-75: the securities that are assigned a return
HasReturn(security) == security.HasData /\ security.Open # 0

\* line 77: security.Close / open - 1, as the exact fraction num / den
IntradayReturn(security) ==
    [num |-> security.Close - security.Open, den |-> security.Open]

\* line 81: round(kv[1], 6), in millionths; a half goes to the even neighbour
Round6(ret) ==
    LET q == (ret.num * 1000000) \div ret.den
        r == (ret.num * 1000000) % ret.den
    IN  IF 2 * r < ret.den THEN q
        ELSE IF 2 * r > ret.den THEN q + 1
        ELSE IF q % 2 = 0 THEN q ELSE q + 1

\* line 81: key = lambda kv: (-round(kv[1], 6), kv[0]), compared as tuples
KeyBefore(a, b) ==
    \/ Round6(a.Return) > Round6(b.Return)
    \/ Round6(a.Return) = Round6(b.Return) /\ a.Symbol < b.Symbol

\* line 80: sorted(...): x goes after the elements that do not come after it
InsertByKey(x, t) ==
    LET k == Cardinality({i \in 1..Len(t) : ~KeyBefore(x, t[i])})
    IN  SubSeq(t, 1, k) \o <<x>> \o SubSeq(t, k + 1, Len(t))

RECURSIVE SortedByKey(_)
SortedByKey(s) ==
    IF s = <<>> THEN <<>>
    ELSE InsertByKey(s[Len(s)], SortedByKey(SubSeq(s, 1, Len(s) - 1)))

\* line 81: [0:self.numberOfStocks], a Python slice: a negative end counts
\* from the end of the list
SliceTo(s, n) ==
    IF n >= 0 THEN SubSeq(s, 1, Min(n, Len(s)))
    ELSE SubSeq(s, 1, Max(Len(s) + n, 0))

\* lines 72-77: symbolsRet.items(), in the order the securities are visited
\* (the sort key is a total order, so the visiting order does not show)
RECURSIVE ItemsOf(_, _)
ItemsOf(securities, D) ==
    IF D = {} THEN <<>>
    ELSE LET s == CHOOSE x \in D : \A y \in D : x <= y
         IN  <<[Symbol |-> s, Return |-> IntradayReturn(securities[s])]>>
             \o ItemsOf(securities, D \ {s})

\* variant: the rounded return emitted
MagnitudeRounded(value) == [num |-> Round6(value), den |-> 1000000]

\* line 85: the magnitude handed to Insight.Price is the dictionary's value
Magnitude(value) == value

\* line 85: Insight.Price(key, self.predictionInterval, InsightDirection.Down, value, None)
InsightPrice(kv) ==
    [Symbol |-> kv.Symbol, Period |-> predictionInterval, Direction |-> "Down",
     Magnitude |-> Magnitude(kv.Return), Confidence |-> "None"]

NoMemo == [set |-> FALSE]

Range(s) == {s[i] : i \in DOMAIN s}

\* variant: only the securities of the filter's tracked set are ranked
VisitedTrackedOnly(securities) == DOMAIN securities \cap Range(symbols)

\* line 72: for security in algorithm.ActiveSecurities.Values
Visited(securities) == DOMAIN securities

\* history: memo keeps one Update call (its input, its output and the tracked
\* set at that time); again records a later call on the same input made after
\* the tracked set had changed
Remember(securities, result) ==
    IF memo.set
    THEN {[memo EXCEPT !.again = @ \/ (securities = memo.securities
                                       /\ symbols # memo.tracked)]}
    ELSE {memo, [set |-> TRUE, securities |-> securities, insights |-> result,
                 tracked |-> symbols, again |-> FALSE]}

\* lines 68-87, called with algorithm.ActiveSecurities = securities
Update(securities) ==
    LET evaluated == {s \in Visited(securities) : HasReturn(securities[s])}
        divides == \E s \in evaluated : securities[s].Open = 0
        pumpedStocks == SliceTo(SortedByKey(ItemsOf(securities, evaluated)),
                                numberOfStocks)
    IN  /\ ActiveSecurities' = securities
        /\ updated' = TRUE
        /\ zeroDivision' = (zeroDivision \/ divides)
        /\ insights' = IF divides THEN <<>>
                       ELSE [i \in 1..Len(pumpedStocks) |-> InsightPrice(pumpedStocks[i])]
        /\ memo' \in Remember(securities, insights')
        /\ UNCHANGED <<filterVars, configVars>>

\* lines 62-66
InitRank(kwargs) ==
    /\ predictionInterval = PredictionInterval(kwargs)
    /\ numberOfStocks = NumberOfStocks(kwargs)
    /\ ActiveSecurities = <<>>
    /\ insights = <<>>
    /\ updated = FALSE
    /\ zeroDivision = FALSE
    /\ memo = NoMemo

(***************************************************************************)
(* Specifications                                                          *)
(***************************************************************************)
\* the host calls SelectCoarse at dates that never go back
SelectCall(times, inputs) ==
    \E t \in times, c \in inputs : NotBefore(t, Time) /\ SelectCoarse(t, c)

UpdateCall(values) ==
    \E securities \in Snapshots(values) : Update(securities)

\* lines 40-56: the algorithm as Initialize wires it, both models built
\* without arguments, then any interleaving of the two callbacks
Init == InitFilter /\ InitRank(NoKwargs)

FirstYear == {t \in Times : t.year = 1}

Next ==
    \/ SelectCall(FirstYear, SeqsUpTo({x \in CacheRecords : x.Symbol = 1}, 1))
    \/ UpdateCall(FewSecurityValues)

Spec == Init /\ [][Next]_vars

\* sequences of SelectCoarse calls
NextCache == SelectCall(Times, SeqsUpTo(CacheRecords, 2))

SpecCache == Init /\ [][NextCache]_vars

\* one SelectCoarse call on a fresh model, over every snapshot, then a call
\* in the same month with an empty snapshot
NextFilter ==
    \/ selectCalls = 0 /\ SelectCall({Time}, SeqsUpTo(CoarseRecords, MaxCoarse))
    \/ selectCalls = 1 /\ SelectCall({Time}, {<<>>})

SpecFilter == Init /\ [][NextFilter]_vars

\* one Update call on a model built with any keyword arguments
InitAnyRank == InitFilter /\ \E kwargs \in KwargsTried : InitRank(kwargs)

NextRank == ~updated /\ UpdateCall(SecurityValues)

SpecRank == InitAnyRank /\ [][NextRank]_vars

(***************************************************************************)
(* Properties of SelectCoarse                                              *)
(***************************************************************************)
\* the selection criteria as the specification words them
MeetsCriteria(x) ==
    /\ x.HasFundamentalData = TRUE
    /\ 10000 < x.Volume /\ x.Volume < 1000000
    /\ 0 < x.Price /\ x.Price < 5

OnBoundary(x) == x.Volume \in {10000, 1000000} \/ x.Price \in {0, 5}

\* a step that is a SelectCoarse call (Update leaves these variables alone)
SelectStep == rankVars' = rankVars

\* C1: of two consecutive SelectCoarse calls made with the same month, the
\* second returns what the first returned, whatever snapshot it is given, and
\* leaves self.symbols and self.lastMonth as they were
C1_CacheStability ==
    [][(SelectStep /\ selectCalls >= 1 /\ Time'.month = Time.month)
        => (returned' = returned /\ symbols' = symbols /\ lastMonth' = lastMonth)]_vars

\* C1 witness: a second call was answered from the cache although its snapshot
\* would have selected something else
C1_Witness ==
    /\ selectCalls = 2
    /\ ~refreshed
    /\ SymbolsOf(Top(SortedByDollarVolume(Filtered(coarse)))) # returned

\* C2: after a refreshing call every returned identifier is that of a record
\* of the snapshot with fundamental data, 10000 < volume < 1000000 and
\* 0 < price < 5; a record on a boundary is never selected
C2_FilterCorrectness ==
    refreshed =>
        /\ Len(top) = Len(returned)
        /\ \A k \in 1..Len(returned) :
              /\ returned[k] = top[k].Symbol
              /\ top[k] \in Range(coarse)
              /\ MeetsCriteria(top[k])
              /\ ~OnBoundary(top[k])
        /\ NoDupIds(coarse) =>
              \A i \in 1..Len(coarse) :
                  ~MeetsCriteria(coarse[i]) => coarse[i].Symbol \notin Range(returned)

\* C2 witness: a refreshing call selected something from a snapshot that also
\* held a record on a boundary
C2_Witness ==
    /\ refreshed
    /\ returned # <<>>
    /\ NoDupIds(coarse)
    /\ \E i \in 1..Len(coarse) : OnBoundary(coarse[i])

\* the positions of the snapshot that meet the criteria, and the place of one
\* of them in the order by dollar volume descending, input order among equals
Passing(c) == {i \in 1..Len(c) : MeetsCriteria(c[i])}

PlaceOf(c, i) ==
    1 + Cardinality({j \in Passing(c) :
                        \/ c[j].DollarVolume > c[i].DollarVolume
                        \/ c[j].DollarVolume = c[i].DollarVolume /\ j < i})

\* C3: a refreshing call returns exactly the first numberOfSymbolsCoarse
\* identifiers of the passing records ordered by dollar volume descending,
\* equal dollar volumes in input order; no call returns more than
\* numberOfSymbolsCoarse identifiers; nothing passing yields the empty set
C3_CapAndOrder ==
    /\ Len(returned) <= numberOfSymbolsCoarse
    /\ refreshed =>
          /\ Len(returned) = Min(numberOfSymbolsCoarse, Cardinality(Passing(coarse)))
          /\ \A i \in Passing(coarse) :
                PlaceOf(coarse, i) <= numberOfSymbolsCoarse
                    => returned[PlaceOf(coarse, i)] = coarse[i].Symbol
          /\ Passing(coarse) = {} => (returned = <<>> /\ symbols = <<>>)

\* C3 witness: more records passed than the cap allows, two of them of
\* different identifiers with the same dollar volume
C3_Witness ==
    /\ refreshed
    /\ Cardinality(Passing(coarse)) > numberOfSymbolsCoarse
    /\ \E i, j \in Passing(coarse) :
          /\ i < j
          /\ coarse[i].DollarVolume = coarse[j].DollarVolume
          /\ coarse[i].Symbol # coarse[j].Symbol

\* C7 as claimed: the tracked set is recomputed exactly at the calls whose
\* calendar month (year and month) differs from that of the previous recompute
C7_CalendarMonthCadence ==
    [][(SelectStep /\ selectCalls' >= 1)
        => (refreshed' <=> (Time'.year # refreshTime.year
                            \/ Time'.month # refreshTime.month))]_vars

\* C7 amended: the tracked set is recomputed exactly at the calls whose month
\* number differs from the month number of the previous recompute (at the
\* first call too); the year is not compared
C7_MonthNumberCadence ==
    [][(SelectStep /\ selectCalls' >= 1)
        => (refreshed' <=> Time'.month # refreshTime.month)]_vars

\* C7 witness: a call in the same month number of a later year was answered
\* from the cache
C7_Witness ==
    /\ selectCalls = 2
    /\ ~refreshed
    /\ Time.year # refreshTime.year
    /\ Time.month = refreshTime.month

\* C8 as claimed: self.symbols never holds an identifier twice, whatever
\* snapshots are passed
C8_NoDuplicates == NoDup(symbols)

\* C8 amended: self.symbols never holds an identifier twice, provided no
\* snapshot passed so far held two records of the same identifier
C8_NoDuplicatesOfUniqueInputs == uniqueInputs => NoDup(symbols)

\* C8 witness: a later recompute from duplicate-free snapshots tracks two identifiers
C8_Witness ==
    /\ uniqueInputs
    /\ selectCalls = 2
    /\ refreshed
    /\ Len(symbols) = 2

(***************************************************************************)
(* Properties of PumpAndDumpAlphaModel                                     *)
(***************************************************************************)
\* the observations that are valid: with data and a non-zero open
Valid(securities) ==
    {s \in DOMAIN securities : securities[s].HasData /\ securities[s].Open # 0}

\* the ranking key of an observation, in millionths: the quotient rounded to
\* the nearest millionth (the prices tried never give an exact half)
RankKey(sec) ==
    LET n == (sec.Close - sec.Open) * 1000000
    IN  IF 2 * (n % sec.Open) > sec.Open THEN (n \div sec.Open) + 1 ELSE n \div sec.Open

\* the place of a valid observation: rounded return descending, then identifier
RankPlace(securities, s) ==
    1 + Cardinality({u \in Valid(securities) :
                        \/ RankKey(securities[u]) > RankKey(securities[s])
                        \/ RankKey(securities[u]) = RankKey(securities[s]) /\ u < s})

\* C4: no insight refers to a security without data or with a zero open, and
\* no division by zero is evaluated
C4_ExcludesBadData ==
    updated =>
        /\ ~zeroDivision
        /\ \A k \in 1..Len(insights) :
              /\ insights[k].Symbol \in DOMAIN ActiveSecurities
              /\ ActiveSecurities[insights[k].Symbol].HasData
              /\ ActiveSecurities[insights[k].Symbol].Open # 0

\* C4 witness: insights were emitted from a snapshot holding a security
\* without data and one with a zero open
C4_Witness ==
    /\ updated
    /\ insights # <<>>
    /\ \E s \in DOMAIN ActiveSecurities : ~ActiveSecurities[s].HasData
    /\ \E s \in DOMAIN ActiveSecurities :
          ActiveSecurities[s].HasData /\ ActiveSecurities[s].Open = 0

\* the insights are the first n valid observations by place, in that order,
\* each Down and of the configured interval
TopKIs(n) ==
    /\ Len(insights) = n
    /\ \A s \in Valid(ActiveSecurities) :
          RankPlace(ActiveSecurities, s) <= n
              => insights[RankPlace(ActiveSecurities, s)].Symbol = s
    /\ \A k \in 1..Len(insights) :
          /\ insights[k].Direction = "Down"
          /\ insights[k].Period = predictionInterval

\* C5: Update emits exactly min(numberOfStocks, number of valid observations)
\* insights, the first numberOfStocks valid observations by rounded return
\* descending then identifier ascending, in that order, each Down and of the
\* configured prediction interval
C5_TopK ==
    updated =>
        TopKIs(Min(numberOfStocks, Cardinality(Valid(ActiveSecurities))))

\* what holds of the ranking whenever numberOfStocks is not negative
TopKOfNonNegative ==
    (updated /\ numberOfStocks >= 0) =>
        TopKIs(Min(numberOfStocks, Cardinality(Valid(ActiveSecurities))))

\* and what a negative numberOfStocks gives: all but the last -numberOfStocks
TopKOfNegative ==
    (updated /\ numberOfStocks < 0) =>
        TopKIs(Max(0, Cardinality(Valid(ActiveSecurities)) + numberOfStocks))

\* C6: a model is never built with numberOfStocks <= 0, and no Update call
\* returns more than numberOfStocks insights
C6_MalformedRejected ==
    /\ numberOfStocks >= 1
    /\ updated => Len(insights) <= numberOfStocks

\* C9: the magnitude of every insight is close/open - 1 of its security,
\* exactly (as fractions: magnitude * open = close - open)
C9_UnroundedMagnitude ==
    updated =>
        \A k \in 1..Len(insights) :
            LET sec == ActiveSecurities[insights[k].Symbol]
                m == insights[k].Magnitude
            IN  /\ m.den # 0
                /\ m.num * sec.Open = (sec.Close - sec.Open) * m.den

\* C9 witness: two insights whose returns agree after rounding, the one with
\* the smaller return ranked first
C9_Witness ==
    /\ updated
    /\ \E k, l \in 1..Len(insights) :
          LET a == ActiveSecurities[insights[k].Symbol]
              b == ActiveSecurities[insights[l].Symbol]
          IN  /\ k < l
              /\ a.Open = b.Open
              /\ a.Close < b.Close
              /\ RankKey(a) = RankKey(b)

\* C10: an Update call changes neither the configuration nor the filter's
\* state, and returns what an earlier Update call on the same snapshot
\* returned, whatever was called in between
C10_RankIsPure ==
    [][(rankVars' # rankVars)
        => /\ numberOfStocks' = numberOfStocks
           /\ predictionInterval' = predictionInterval
           /\ symbols' = symbols
           /\ lastMonth' = lastMonth
           /\ (memo.set /\ ActiveSecurities' = memo.securities)
                  => insights' = memo.insights]_vars

\* C10 witness: the remembered call was repeated on the same snapshot after
\* the tracked set had changed, and it returned insights
C10_Witness ==
    /\ memo.set
    /\ memo.again
    /\ memo.insights # <<>>
    /\ ActiveSecurities = memo.securities
    /\ insights = memo.insights

=============================================================================
